---- MODULE Spec2Model ----
(***************************************************************************)
(* Cramwell backend: the shared vector index behind PineconeService, the   *)
(* study-feature cache of utils.py, the HTTP/MCP handlers that drive them, *)
(* and the chunker smart_chunk_text.                                       *)
(*                                                                         *)
(* The API server and the MCP server are separate processes that share the *)
(* vector index and the cache table, so calls interleave at the            *)
(* granularity of one backend request (one step per request).              *)
(***************************************************************************)
EXTENDS Integers, Sequences, FiniteSets, TLC

\* ------------------------------------------------------------------ bounds
Tenants == {"A", "B"}
Texts == {"x", "y"}
Suffixes == {"s1", "s2"}
Slots == {"p1", "p2"}
Answers == {"c1", "c2"}
\* the document batches handed to the gateway by direct callers
Batches == {<<"x">>, <<"y">>, <<"x", "y">>}
MaxCalls == 3
MaxAppCalls == 2
MaxCacheOps == 3
DefaultTopK == 5
TopKs == {1, DefaultTopK}

None == <<>>

Features == {"summary", "exam", "flashcards"}
Keys == Tenants \X Features
\* the document batches ingestion produces in the handlers' runs
AppBatches == {<<"x">>}
PutContents == {<<"raw", "c1">>, <<"raw", "c2">>}
\* a text is a sequence of characters: a letter, a sentence end, a blank
Chars == {"a", ".", " "}
MaxTextLen == 6
MaxFairTextLen == 4
Strings == UNION {[1..n -> Chars] : n \in 0..MaxTextLen}
TokenLimits == {1, 2, 3}
OverlapLimits == {0, 1, 2}
OverlapWords == 50
CharsPerToken == 3
\* the words questions are made of, in the case the user typed them
Words == {"what is", "DEFINE", "workload", "Get An A", "exam", "Quiz", "hello"}
MaxQuestionLen == 2
Questions == UNION {[1..n -> Words] : n \in 0..MaxQuestionLen}
MaxPromptCalls == 1
\* the markdown texts a processed file yields, and the calls of the
\* workflow's steps
MdTexts == {<<>>, <<"# notes">>, <<"# notes", "more">>}
MaxExtractCalls == 2
\* file extensions: the ones parse_file routes to a dedicated parser, and
\* others (bin: a type no parser supports)
DedicatedExts == {"xlsx", "csv", "ipynb", "ppt", "pptx", "docx"}
OtherExts == {"pdf", "html", "txt", "md", "bin"}
Extensions == DedicatedExts \cup OtherExts
MaxIngestCalls == 1
\* len(text.strip()) must exceed it, and the length above which the
\* character ratio is looked at, and the ratio's bound in tenths
MinTextLength == 50
RatioTextLength == 100
RatioTenths == 3
\* An extracted text, kept as what the checks on it read: <<strip, pad,
\* other, kw>> with strip = len(text.strip()), pad the blanks strip()
\* removes, other the characters that are neither alphanumeric nor blank,
\* kw whether text.lower() holds one of the indicator words (at least five
\* letters long).
ExtractedTexts ==
  {t \in {0, 10, 50, 51, 101} \X {0, 60} \X {0, 31, 40} \X BOOLEAN :
     /\ t[3] <= t[1]
     /\ t[4] => t[1] - t[3] >= 5}

VARIABLES indexExists, index, origin, calls, nstarted, cache, last, ck

vars == <<indexExists, index, origin, calls, nstarted, cache, last, ck>>
svars == <<indexExists, index, origin, calls, nstarted, cache, last>>
gvars == <<indexExists, index, origin>>
cvars == <<cache, last>>

\* ------------------------------------------------------- backend behaviour
Abs(n) == IF n < 0 THEN 0 - n ELSE n

\* get_embedding: a deterministic function of the text alone.
Embed(text) == IF text = "x" THEN 1 ELSE 2

\* cosine similarity, kept only as a ranking of vectors against the query.
Score(qv, v) == 0 - Abs(qv - v)

\* a metadata filter {field: {"$eq": value}}; the field "*" stands for a
\* request without filter.
Passes(r, flt) == flt.field = "*" \/ r.metadata[flt.field] = flt.eq

\* index.upsert(vectors=...): a record with an existing id is overwritten.
IndexUpsert(idx, vectors) ==
  {r \in idx : \A v \in vectors : v.id # r.id} \cup vectors

\* index.delete(filter=...)
IndexDelete(idx, flt) == {r \in idx : ~Passes(r, flt)}

\* index.query(vector, top_k, filter): the top_k best-scoring records among
\* those passing the filter; ties are broken by the store.
IndexQuery(idx, qv, top_k, flt) ==
  LET cand == {r \in idx : Passes(r, flt)}
      n == IF Cardinality(cand) < top_k THEN Cardinality(cand) ELSE top_k
  IN {M \in SUBSET cand :
        /\ Cardinality(M) = n
        /\ \A m \in M : \A r \in cand \ M : Score(qv, m.values) >= Score(qv, r.values)}

\* ----------------------------------------------------------- the gateway
QueryFilterNone(notebook_id) == [field |-> "*", eq |-> notebook_id]

\* the filter argument of query_notebook's index.query call
QueryFilter(notebook_id) == [field |-> "notebook_id", eq |-> notebook_id]

DeleteFilterNone(notebook_id) == [field |-> "*", eq |-> notebook_id]

\* the filter argument of delete_notebook_documents' index.delete call
DeleteFilter(notebook_id) == [field |-> "notebook_id", eq |-> notebook_id]

MakeVectorFromPayload(notebook_id, i, doc, sfx) ==
  [id |-> <<notebook_id, i, sfx>>,
   values |-> Embed(doc.text),
   metadata |-> [notebook_id |-> doc.notebook_id, text |-> doc.text]]

\* one vector record of add_documents_to_notebook's loop body (the filename
\* and processed_at metadata fields are not modelled)
MakeVector(notebook_id, i, doc, sfx) ==
  [id |-> <<notebook_id, i, sfx>>,
   values |-> Embed(doc.text),
   metadata |-> [notebook_id |-> notebook_id, text |-> doc.text]]

\* the loop leaving after its first document
MakeVectorsFirstOnly(notebook_id, documents, sfx) ==
  {MakeVector(notebook_id, i - 1, documents[i], sfx[i]) : i \in {j \in 1..Len(documents) : j = 1}}

\* the list built by the loop: enumerate() counts from 0
MakeVectors(notebook_id, documents, sfx) ==
  {MakeVector(notebook_id, i - 1, documents[i], sfx[i]) : i \in 1..Len(documents)}

\* documents handed to the gateway: text plus the payload's own notebook_id
DocSeqs(payload) ==
  {[i \in 1..Len(b) |-> [text |-> b[i], notebook_id |-> payload]] : b \in Batches}

\* A call in progress.  kind, nb, docs, q, k are its arguments; pc its
\* position; vecs, matches its locals; ok / ret its boolean / text result.
\* History fields: gen (the generation backend was called), foreign (the
\* documents' payload named another tenant than the argument), empty (the
\* tenant had no record when the index was queried), removed (the delete
\* found records to remove).
\* Handler fields: feat (feature type), aux (which of generate_summary's
\* two queries runs), status (HTTP status of the response, 0: none).
\* More history fields: seen (the key's cache content when the handler made
\* its first request), retr (the index was queried), wrote (the call changed
\* the cache), putAt (the number its put has among the writes of its key, 0: none), cfail (a
\* cache request of the call failed), dirty (a put for the call's tenant
\* succeeded since the call started), phase (the key's phase when
\* get_cached_study_feature read it).
\* Ingestion fields: ext (the file's extension), text (what parse_file
\* returned), up (the value add_documents_to_notebook returned to
\* process_file_for_notebook, "": not called).  History: ftext / htext
\* (what the first / the Docling extractor produced), fast / heavy (how
\* that extractor's run ended, "": it did not run), raised (an exception
\* left the call), efail (an embedding request of the ingestion loop
\* failed), stale (vectors were written for the call's tenant after the
\* call had queried the index and before it returned).
\* Workflow fields: answer (the text the MCP tool answered with); ret holds
\* the step's NotebookOutputEvent.
\* Prompt fields: words (the question handed to _get_specialized_prompt),
\* prompt (the system prompt it returned, "": none yet).
Idle ==
  [kind |-> "idle", pc |-> "idle", nb |-> "A", docs |-> <<>>, vecs |-> {},
   q |-> "x", k |-> 0, matches |-> {}, ok |-> FALSE, ret |-> None,
   gen |-> FALSE, foreign |-> FALSE, empty |-> FALSE, removed |-> FALSE,
   feat |-> "summary", aux |-> "", status |-> 0, seen |-> None, retr |-> FALSE,
   wrote |-> FALSE, putAt |-> 0, cfail |-> FALSE, dirty |-> FALSE, phase |-> 0,
   ext |-> "pdf", ftext |-> None, htext |-> None, text |-> None,
   fast |-> "", heavy |-> "", up |-> "", raised |-> FALSE,
   words |-> <<>>, prompt |-> "", efail |-> FALSE, stale |-> FALSE,
   answer |-> <<>>]

GatewayKinds == {"upsert", "query", "delete"}
IngestKinds == {"upload", "review", "tool"}
CachedGenKinds == {"gen_exam", "gen_flashcards"}
GenKinds == CachedGenKinds \cup {"gen_summary"}

\* the call has returned: its arguments and locals are gone
Finished(c) ==
  [c EXCEPT !.pc = "done", !.docs = <<>>, !.vecs = {}, !.matches = {},
            !.q = "x", !.k = 0]

\* where a call goes once create_index_if_not_exists has returned
AfterEnsure(c) ==
  CASE c.kind \in {"upsert", "ingest"} \cup IngestKinds -> "embed"
    [] c.kind = "ensure" -> "done"
    [] c.kind \in {"query"} \cup GenKinds -> "embedq"
    [] c.kind = "delete" -> "del"

\* upload_source clearing the cache entries whatever the result was
UploadAfterIngestAlwaysClears(c, success) ==
  [c EXCEPT !.pc = "clr1", !.ok = success, !.docs = <<>>, !.vecs = {}]

\* upload_source once process_file_for_notebook has returned: a None result
\* raises HTTPException(400) inside the try block, which the handler's own
\* except Exception turns into a 500; otherwise the three cache entries are
\* cleared next.
UploadAfterIngest(c, success) ==
  IF success THEN [c EXCEPT !.pc = "clr1", !.ok = TRUE, !.docs = <<>>, !.vecs = {}]
  ELSE Finished([c EXCEPT !.ok = FALSE, !.status = 500])

\* save_general_review once add_documents_to_notebook has returned: the
\* outcome is logged and the response is sent either way.
ReviewAfterIngest(c, success) == Finished([c EXCEPT !.ok = success, !.status = 200])

\* process_file_for_notebook_tool: the sentinel text or the success payload
ToolAfterIngest(c, success) == Finished([c EXCEPT !.ok = success])

\* generate_summary once a query_notebook call has returned: the first
\* answer is summary_content, the second assessment_content; a missing
\* summary_content raises after both queries have run.
SummaryAfterQuery(c, a) ==
  IF c.aux = "q1"
  THEN [c EXCEPT !.ret = a, !.aux = "q2", !.pc = "list", !.q = "assessment_prompt",
                 !.matches = {}]
  ELSE IF c.ret = None THEN Finished([c EXCEPT !.status = 500])
       ELSE [c EXCEPT !.pc = "cput", !.matches = {},
                      !.ret = <<"summary", c.ret[2], IF a = None THEN "na" ELSE a[2]>>]

\* query_index_for_notebook once query_notebook has returned: None stays
\* None (the endpoint then raises), an answer goes to the template.
CachedGenAfterQuery(c, a) ==
  IF a = None THEN Finished([c EXCEPT !.status = 500, !.ret = None])
  ELSE [c EXCEPT !.pc = "format", !.ret = a, !.matches = {}]

\* process_file_for_notebook once add_documents_to_notebook has returned:
\* if success: return the message pair; return None, None
IngestAfterUpsert(c, success) ==
  Finished([c EXCEPT !.up = IF success THEN "true" ELSE "false", !.ok = success])

\* the gateway method returns a boolean (upsert, delete)
ReturnBool(c, b) ==
  CASE c.kind = "upload" -> UploadAfterIngest(c, b)
    [] c.kind = "review" -> ReviewAfterIngest(c, b)
    [] c.kind = "tool" -> ToolAfterIngest(c, b)
    [] c.kind = "ingest" -> IngestAfterUpsert(c, b)
    [] OTHER -> Finished([c EXCEPT !.ok = b])

\* the gateway method returns an answer or None (query)
ReturnAnswer(c, a) ==
  CASE c.kind = "gen_summary" -> SummaryAfterQuery(c, a)
    [] c.kind \in CachedGenKinds -> CachedGenAfterQuery(c, a)
    [] OTHER -> Finished([c EXCEPT !.ret = a, !.ok = (a # None)])

\* add_documents_to_notebook with "return True" in its except clause
RaiseReturnsTrue(c) == ReturnBool(c, TRUE)

\* an exception of a backend request.  Inside the try block of
\* add_documents_to_notebook, query_notebook, delete_notebook_documents:
\* except Exception -> False / None.  create_index_if_not_exists has no try
\* block of its own: called directly, the exception leaves it.
Raise(c) ==
  IF c.kind \in {"query"} \cup GenKinds THEN ReturnAnswer(c, None)
  ELSE IF c.kind = "ensure" THEN Finished([c EXCEPT !.raised = TRUE])
  ELSE ReturnBool([c EXCEPT !.efail = (c.pc = "embed")], FALSE)

AfterSearchNoCheck(c, M) == [c EXCEPT !.pc = "complete", !.matches = M]

\* query_notebook: if not query_response.matches: return None
AfterSearch(c, M) ==
  IF M = {} THEN ReturnAnswer(c, None)
  ELSE [c EXCEPT !.pc = "complete", !.matches = M]

\* str.lower() on a word
Lower(w) ==
  CASE w = "DEFINE" -> "define"
    [] w = "Get An A" -> "get an a"
    [] w = "Quiz" -> "quiz"
    [] OTHER -> w

\* question.lower()
LowerAll(question) == [i \in 1..Len(question) |-> Lower(question[i])]

\* keywords of the three lists of _get_specialized_prompt
ConceptKeywords == {"what is", "define", "explain"}
GradeKeywords == {"get an a", "workload", "balance"}
ExamKeywords == {"exam", "quiz", "homework"}

\* any(keyword in question_lower for keyword in keywords)
AnyKeyword(question_lower, keywords) ==
  \E i \in 1..Len(question_lower) : question_lower[i] \in keywords

\* the four system prompts, named by their first sentence
ConceptPrompt == "You are a concept explanation specialist."
GradePrompt == "You are a strategic grade optimization and workload management specialist."
ExamPrompt == "You are a tactical exam and assignment strategist."
GeneralPrompt == "You are a strategic academic study assistant."

\* the branches of _get_specialized_prompt with the second list first
GetSpecializedPromptGradeFirst(question) ==
  LET question_lower == LowerAll(question) IN
    IF AnyKeyword(question_lower, GradeKeywords) THEN GradePrompt
    ELSE IF AnyKeyword(question_lower, ConceptKeywords) THEN ConceptPrompt
    ELSE IF AnyKeyword(question_lower, ExamKeywords) THEN ExamPrompt
    ELSE GeneralPrompt

\* _get_specialized_prompt(question): if / elif / elif / else
GetSpecializedPrompt(question) ==
  LET question_lower == LowerAll(question) IN
    IF AnyKeyword(question_lower, ConceptKeywords) THEN ConceptPrompt
    ELSE IF AnyKeyword(question_lower, GradeKeywords) THEN GradePrompt
    ELSE IF AnyKeyword(question_lower, ExamKeywords) THEN ExamPrompt
    ELSE GeneralPrompt

\* A tool answer is a sequence of pieces of text; the separator is one
\* piece.
Separator == "%separator%"
CouldNotProcess == "Sorry, your file could not be processed."

\* what process_file / process_file_for_notebook return as first element
\* on success
NotebookModels ==
  [extract_file |-> "File processed successfully",
   extract_notebook_file |-> "Document processed and added to notebook index"]

\* process_file_tool / process_file_for_notebook_tool: the sentinel, or
\* notebook_model + "\n%separator%\n" + text
ToolAnswers(kind) ==
  {<<CouldNotProcess>>} \cup {<<NotebookModels[kind], Separator>> \o md : md \in MdTexts}

\* result_text.split("\n%separator%\n")
RECURSIVE SplitOn(_, _, _, _)
SplitOn(text, i, piece, pieces) ==
  IF i > Len(text) THEN Append(pieces, piece)
  ELSE IF text[i] = Separator THEN SplitOn(text, i + 1, <<>>, Append(pieces, piece))
  ELSE SplitOn(text, i + 1, Append(piece, text[i]), pieces)

\* the texts json.loads accepts and that hold the fields of the event
JsonDocuments == {<<"{\"summary\": \"\", \"highlights\": [], \"questions\": [], \"answers\": []}">>}

\* NotebookOutputEvent(md_content=...), by its markdown content
NotebookOutputEvent(md_content) == <<"NotebookOutputEvent", md_content>>

\* extract_file_data / extract_notebook_file_data after the tool call:
\* split_result[1] raises IndexError without a second piece, json.loads
\* raises on a text that is no JSON document
ExtractStep(result_text) ==
  LET split_result == SplitOn(result_text, 1, <<>>, <<>>)
  IN IF Len(split_result) < 2 THEN [raised |-> TRUE, event |-> None]
     ELSE IF split_result[1] = <<CouldNotProcess>> THEN [raised |-> FALSE, event |-> NotebookOutputEvent(<<>>)]
     ELSE IF split_result[1] \notin JsonDocuments THEN [raised |-> TRUE, event |-> None]
     ELSE [raised |-> FALSE, event |-> NotebookOutputEvent(split_result[2])]

\* len(text.strip()) and len(text)
StripLen(text) == text[1]
TextLen(text) == text[1] + text[2]

\* the test without the indicator words
IsPoorIgnoringWords(text) ==
  IF text = None \/ TextLen(text) = 0 \/ StripLen(text) < MinTextLength THEN TRUE
  ELSE IF TextLen(text) > RatioTextLength THEN 10 * text[3] > RatioTenths * TextLen(text)
  ELSE FALSE

\* is_handwritten_or_poor_extraction(text): too little text, an indicator
\* word, or, in a text of more than 100 characters, non_alphanumeric /
\* len(text) > 0.3
IsHandwrittenOrPoorExtraction(text) ==
  IF text = None \/ TextLen(text) = 0 \/ StripLen(text) < MinTextLength THEN TRUE
  ELSE IF text[4] THEN TRUE
  ELSE IF TextLen(text) > RatioTextLength THEN 10 * text[3] > RatioTenths * TextLen(text)
  ELSE FALSE

\* parse_file: text and len(text.strip()) > 50
LongEnough(text) == text # None /\ TextLen(text) > 0 /\ StripLen(text) > MinTextLength

\* process_file_for_notebook returns (None, None)
Sentinel(c) == Finished([c EXCEPT !.ok = FALSE])

\* process_file_for_notebook without its except clause
IngestRaisePropagates(c) == Finished([c EXCEPT !.raised = TRUE])

\* process_file_for_notebook: except Exception -> return None, None
IngestRaise(c) == Sentinel(c)

\* parse_file has returned to process_file_for_notebook: if text is None:
\* return None, None; otherwise the text goes to the chunker
AfterParse(c, text) ==
  IF text = None THEN Sentinel([c EXCEPT !.text = None])
  ELSE [c EXCEPT !.pc = "chunk", !.text = text]

\* parse_file, the first extractor of the else branch has run and Docling
\* follows whatever it produced
AfterFastAlwaysDocling(c, text) ==
  [c EXCEPT !.pc = "docling", !.ftext = text,
            !.fast = IF text = None THEN "raised" ELSE "rejected"]

\* parse_file, the first extractor of the else branch has run
\* (parse_file_pymupdf returns None when it raised): its text is returned
\* if it is long enough and not of poor quality, otherwise Docling follows
AfterFast(c, text) ==
  IF LongEnough(text) /\ ~IsHandwrittenOrPoorExtraction(text)
  THEN AfterParse([c EXCEPT !.ftext = text, !.fast = "accepted"], text)
  ELSE [c EXCEPT !.pc = "docling", !.ftext = text,
                 !.fast = IF text = None THEN "raised" ELSE "rejected"]

\* parse_file, Docling has run (None: it raised): its text is returned if
\* it is long enough, otherwise None
AfterDocling(c, text) ==
  IF LongEnough(text)
  THEN AfterParse([c EXCEPT !.htext = text, !.heavy = "accepted"], text)
  ELSE AfterParse([c EXCEPT !.htext = text,
                            !.heavy = IF text = None THEN "raised" ELSE "rejected"], None)

\* parse_file, a dedicated parser has run (None: it raised): what it
\* produced is returned as it is
AfterDedicated(c, text) ==
  AfterParse([c EXCEPT !.ftext = text,
                       !.fast = IF text = None THEN "raised" ELSE "returned"], text)

\* smart_chunk_text(text, max_tokens=6000) as far as the gateway sees it:
\* the empty text gives [""] with the tokenizer and [] without
ChunksOf(text) == IF TextLen(text) = 0 THEN {<<>>, <<"">>} ELSE AppBatches

\* ------------------------------------------------------------ the chunker
Min(a, b) == IF a < b THEN a ELSE b

\* text[start:end]
Slice(text, start, end) == SubSeq(text, start + 1, Min(end, Len(text)))

\* len(encoding.encode(text)): a run of letters is one token and takes the
\* blank before it along, every other character is a token of its own
TokenCount(text) ==
  Cardinality({i \in 1..Len(text) :
     \/ text[i] = "."
     \/ text[i] = "a" /\ (i = 1 \/ text[i - 1] # "a")
     \/ text[i] = " " /\ (i = Len(text) \/ text[i + 1] # "a")})

\* the first position from j on that holds no blank
RECURSIVE NextNonSpace(_, _)
NextNonSpace(text, j) ==
  IF j > Len(text) \/ text[j] # " " THEN j ELSE NextNonSpace(text, j + 1)

\* the first position from j on that holds a blank
RECURSIVE NextSpace(_, _)
NextSpace(text, j) ==
  IF j > Len(text) \/ text[j] = " " THEN j ELSE NextSpace(text, j + 1)

\* re.split(r'(?<=[.!?])\s+', text)
RECURSIVE SplitSentences(_)
SplitSentences(text) ==
  LET breaks == {i \in 1..(Len(text) - 1) : text[i] = "." /\ text[i + 1] = " "}
  IN IF breaks = {} THEN <<text>>
     ELSE LET i == CHOOSE b \in breaks : \A o \in breaks : b <= o
              j == NextNonSpace(text, i + 1)
          IN <<SubSeq(text, 1, i)>> \o SplitSentences(SubSeq(text, j, Len(text)))

\* chunk.split()
RECURSIVE SplitWords(_)
SplitWords(text) ==
  LET b == NextNonSpace(text, 1)
      e == NextSpace(text, b)
  IN IF b > Len(text) THEN <<>>
     ELSE <<SubSeq(text, b, e - 1)>> \o SplitWords(SubSeq(text, e, Len(text)))

\* " ".join(parts)
RECURSIVE Join(_)
Join(parts) ==
  IF parts = <<>> THEN <<>>
  ELSE IF Len(parts) = 1 THEN parts[1]
  ELSE parts[1] \o <<" ">> \o Join(Tail(parts))

\* no overlap at all
OverlapSentencesNone(current, i, overlap, count, overlap_tokens) ==
  [sentences |-> <<>>, count |-> 0]

\* the first sentence of the current chunk as overlap, if it fits
OverlapSentencesHead(current, i, overlap, count, overlap_tokens) ==
  IF i > 0 /\ TokenCount(current[1]) <= overlap_tokens
  THEN [sentences |-> <<current[1]>>, count |-> TokenCount(current[1])]
  ELSE [sentences |-> <<>>, count |-> 0]

\* the sentences taken from the end of the current chunk as overlap
RECURSIVE OverlapSentences(_, _, _, _, _)
OverlapSentences(current, i, overlap, count, overlap_tokens) ==
  IF i = 0 THEN [sentences |-> overlap, count |-> count]
  ELSE LET t == TokenCount(current[i])
       IN IF count + t <= overlap_tokens
          THEN OverlapSentences(current, i - 1, <<current[i]>> \o overlap, count + t, overlap_tokens)
          ELSE [sentences |-> overlap, count |-> count]

\* the loop that builds chunks sentence by sentence, from sentence i on
RECURSIVE SentenceLoop(_, _, _, _, _, _, _)
SentenceLoop(sentences, i, chunks, current, current_tokens, max_tokens, overlap_tokens) ==
  IF i > Len(sentences)
  THEN IF current # <<>> THEN Append(chunks, Join(current)) ELSE chunks
  ELSE LET sentence == sentences[i]
           sentence_tokens == TokenCount(sentence)
       IN IF current_tokens + sentence_tokens > max_tokens /\ current # <<>>
          THEN LET o == OverlapSentences(current, Len(current), <<>>, 0, overlap_tokens)
               IN SentenceLoop(sentences, i + 1, Append(chunks, Join(current)),
                               o.sentences \o <<sentence>>, o.count + sentence_tokens,
                               max_tokens, overlap_tokens)
          ELSE SentenceLoop(sentences, i + 1, chunks, Append(current, sentence),
                            current_tokens + sentence_tokens, max_tokens, overlap_tokens)

\* temp_chunk_words[-50:] if len(temp_chunk_words) > 50
\* else temp_chunk_words[-len(temp_chunk_words)//2:]
WordOverlap(temp) ==
  LET n == Len(temp)
      k == IF n > OverlapWords THEN OverlapWords ELSE (n + 1) \div 2
  IN SubSeq(temp, n - k + 1, n)

\* the loop that splits an over-long chunk by words, from word i on
RECURSIVE WordLoop(_, _, _, _, _, _, _)
WordLoop(words, i, final, temp, temp_tokens, max_tokens, overlap_tokens) ==
  IF i > Len(words)
  THEN IF temp # <<>> THEN Append(final, Join(temp)) ELSE final
  ELSE LET word == words[i]
           word_tokens == TokenCount(word \o <<" ">>)
       IN IF temp_tokens + word_tokens > max_tokens /\ temp # <<>>
          THEN LET overlap_words == WordOverlap(temp)
                   overlap_word_tokens == TokenCount(Join(overlap_words))
               IN IF overlap_word_tokens <= overlap_tokens
                  THEN WordLoop(words, i + 1, Append(final, Join(temp)),
                                overlap_words \o <<word>>, overlap_word_tokens + word_tokens,
                                max_tokens, overlap_tokens)
                  ELSE WordLoop(words, i + 1, Append(final, Join(temp)),
                                <<word>>, word_tokens, max_tokens, overlap_tokens)
          ELSE WordLoop(words, i + 1, final, Append(temp, word),
                        temp_tokens + word_tokens, max_tokens, overlap_tokens)

\* the pass over the chunks that keeps a chunk within the limit and splits
\* the others by words, from chunk i on
RECURSIVE FinalLoop(_, _, _, _, _)
FinalLoop(chunks, i, final, max_tokens, overlap_tokens) ==
  IF i > Len(chunks) THEN final
  ELSE IF TokenCount(chunks[i]) <= max_tokens
  THEN FinalLoop(chunks, i + 1, Append(final, chunks[i]), max_tokens, overlap_tokens)
  ELSE FinalLoop(chunks, i + 1,
                 WordLoop(SplitWords(chunks[i]), 1, final, <<>>, 0, max_tokens, overlap_tokens),
                 max_tokens, overlap_tokens)

\* the final chunks as they are, empty or not
FinalChunksAsIs(text, final, max_tokens) == final

\* return final_chunks if final_chunks else [text[:max_tokens*3]]
FinalChunks(text, final, max_tokens) ==
  IF final # <<>> THEN final ELSE <<Slice(text, 0, max_tokens * CharsPerToken)>>

\* no call of smart_chunk_text
NoChunk ==
  [pc |-> "idle", text |-> <<>>, max_tokens |-> 0, overlap_tokens |-> 0,
   tiktoken |-> FALSE, chunks |-> <<>>, start |-> 0]

\* smart_chunk_text(text, max_tokens, overlap_tokens) called; tiktoken says
\* whether the encoding can be loaded
InitChunk ==
  /\ indexExists = FALSE
  /\ index = {}
  /\ origin = <<>>
  /\ calls = [s \in Slots |-> Idle]
  /\ nstarted = 0
  /\ cache = {}
  /\ last = [key \in Keys |-> [c |-> None, n |-> 0, phase |-> 0, run |-> 0]]
  /\ \E text \in Strings, max_tokens \in TokenLimits, overlap_tokens \in OverlapLimits,
        tiktoken \in BOOLEAN :
       ck = [NoChunk EXCEPT !.pc = "call", !.text = text, !.max_tokens = max_tokens,
                            !.overlap_tokens = overlap_tokens, !.tiktoken = tiktoken]

\* a sentence of n tokens (n >= 2): n - 1 one-letter words and a full stop
LetterSentence(n) ==
  [i \in 1..(2 * n - 2) |-> IF i = 2 * n - 2 THEN "." ELSE IF i % 2 = 1 THEN "a" ELSE " "]

\* m sentences of n tokens each, a blank between two sentences
UniformText(n, m) ==
  [p \in 1..(m * (2 * n - 1) - 1) |->
     LET q == ((p - 1) % (2 * n - 1)) + 1
     IN IF q = 2 * n - 1 THEN " " ELSE LetterSentence(n)[q]]

\* the limits process_file_for_notebook chunks with: max_tokens=6000 and
\* the default of overlap_tokens
DefaultMaxTokens == 6000
DefaultOverlapTokens == 200

\* documents of 15,000 tokens made of sentences of at most 200 tokens
ScenarioSentenceSizes == {100, 125, 150, 200}
ScenarioTexts == {UniformText(n, 15000 \div n) : n \in ScenarioSentenceSizes}

\* smart_chunk_text called on a bounded text with bounded limits, or on a
\* 15,000-token document with the limits of process_file_for_notebook
InitScenario ==
  /\ indexExists = FALSE
  /\ index = {}
  /\ origin = <<>>
  /\ calls = [s \in Slots |-> Idle]
  /\ nstarted = 0
  /\ cache = {}
  /\ last = [key \in Keys |-> [c |-> None, n |-> 0, phase |-> 0, run |-> 0]]
  /\ \/ \E text \in Strings, max_tokens \in TokenLimits, overlap_tokens \in OverlapLimits,
           tiktoken \in BOOLEAN :
          ck = [NoChunk EXCEPT !.pc = "call", !.text = text, !.max_tokens = max_tokens,
                               !.overlap_tokens = overlap_tokens, !.tiktoken = tiktoken]
     \/ \E text \in ScenarioTexts, tiktoken \in BOOLEAN :
          ck = [NoChunk EXCEPT !.pc = "call", !.text = text,
                               !.max_tokens = DefaultMaxTokens,
                               !.overlap_tokens = DefaultOverlapTokens,
                               !.tiktoken = tiktoken]

\* the text fits one chunk
ChunkSingle ==
  /\ ck.pc = "call" /\ ck.tiktoken
  /\ TokenCount(ck.text) <= ck.max_tokens
  /\ ck' = [ck EXCEPT !.pc = "done", !.chunks = <<ck.text>>]
  /\ UNCHANGED svars

\* the text is split into sentences and the sentences gathered into chunks
ChunkSentences ==
  /\ ck.pc = "call" /\ ck.tiktoken
  /\ TokenCount(ck.text) > ck.max_tokens
  /\ ck' = [ck EXCEPT !.pc = "final",
                      !.chunks = SentenceLoop(SplitSentences(ck.text), 1, <<>>, <<>>, 0,
                                              ck.max_tokens, ck.overlap_tokens)]
  /\ UNCHANGED svars

\* the chunks over the limit are split by words, and the result returned
ChunkWords ==
  /\ ck.pc = "final"
  /\ ck' = [ck EXCEPT !.pc = "done",
                      !.chunks = FinalChunks(ck.text,
                                   FinalLoop(ck.chunks, 1, <<>>, ck.max_tokens, ck.overlap_tokens),
                                   ck.max_tokens)]
  /\ UNCHANGED svars

\* the encoding cannot be loaded: chunking by characters starts
ChunkFallback ==
  /\ ck.pc = "call" /\ ~ck.tiktoken
  /\ ck' = [ck EXCEPT !.pc = "loop", !.chunks = <<>>, !.start = 0]
  /\ UNCHANGED svars

\* the next start without the test that it moves forward
NextStartUnguarded(start, chunk_size, overlap_size) == start + chunk_size - overlap_size

\* start = end - overlap_size if end - overlap_size > start else end
NextStart(start, chunk_size, overlap_size) ==
  LET end == start + chunk_size
  IN IF end - overlap_size > start THEN end - overlap_size ELSE end

\* one turn of the character loop
FallbackStep ==
  /\ ck.pc = "loop"
  /\ ck.start < Len(ck.text)
  /\ LET chunk_size == ck.max_tokens * CharsPerToken
         overlap_size == ck.overlap_tokens * CharsPerToken
         end == ck.start + chunk_size
         start == NextStart(ck.start, chunk_size, overlap_size)
     IN ck' = [ck EXCEPT !.chunks = Append(@, Slice(ck.text, ck.start, end)),
                         !.start = start,
                         !.pc = IF start >= Len(ck.text) THEN "done" ELSE "loop"]
  /\ UNCHANGED svars

\* the character loop is not entered
FallbackReturn ==
  /\ ck.pc = "loop"
  /\ ck.start >= Len(ck.text)
  /\ ck' = [ck EXCEPT !.pc = "done"]
  /\ UNCHANGED svars

NextChunk ==
  \/ ChunkSingle
  \/ ChunkSentences
  \/ ChunkWords
  \/ ChunkFallback
  \/ FallbackStep
  \/ FallbackReturn

\* smart_chunk_text on every text, limit and overlap of the bounded sets
SpecChunk == InitChunk /\ [][NextChunk]_vars

\* the calls of InitChunk on the texts of up to MaxFairTextLen characters
InitChunkFair == InitChunk /\ Len(ck.text) <= MaxFairTextLen

\* smart_chunk_text under the scheduling of one sequential call: a step
\* that can be taken is taken
SpecChunkFair == InitChunkFair /\ [][NextChunk]_vars /\ WF_vars(NextChunk)

\* the same, and smart_chunk_text on the 15,000-token documents
SpecScenario == InitScenario /\ [][NextChunk]_vars


Init ==
  /\ indexExists = FALSE
  /\ index = {}
  /\ origin = <<>>
  /\ calls = [s \in Slots |-> Idle]
  /\ nstarted = 0
  /\ ck = NoChunk
  /\ cache = {}
  /\ last = [key \in Keys |-> [c |-> None, n |-> 0, phase |-> 0, run |-> 0]]

Free(s) == calls[s].pc \in {"idle", "done"}

\* a new call takes the first free worker
CanStart(s, limit) ==
  /\ Free(s)
  /\ nstarted < limit
  /\ s = "p2" => ~Free("p1")

\* a cache function called directly runs on either worker
CanCall(s, limit) ==
  /\ Free(s)
  /\ nstarted < limit

\* add_documents_to_notebook(notebook_id, documents) called
StartUpsert(s) ==
  /\ CanStart(s, MaxCalls)
  /\ \E nb \in Tenants, payload \in Tenants : \E docs \in DocSeqs(payload) :
       calls' = [calls EXCEPT ![s] = [Idle EXCEPT !.kind = "upsert", !.pc = "list",
                                                  !.nb = nb, !.docs = docs,
                                                  !.foreign = (payload # nb)]]
  /\ nstarted' = nstarted + 1
  /\ UNCHANGED ck
  /\ UNCHANGED <<gvars, cvars>>

\* query_notebook(notebook_id, question, top_k) called
StartQuery(s) ==
  /\ CanStart(s, MaxCalls)
  /\ \E nb \in Tenants, q \in Texts, k \in TopKs :
       calls' = [calls EXCEPT ![s] = [Idle EXCEPT !.kind = "query", !.pc = "list",
                                                  !.nb = nb, !.q = q, !.k = k]]
  /\ nstarted' = nstarted + 1
  /\ UNCHANGED ck
  /\ UNCHANGED <<gvars, cvars>>

\* delete_notebook_documents(notebook_id) called
StartDelete(s) ==
  /\ CanStart(s, MaxCalls)
  /\ \E nb \in Tenants :
       calls' = [calls EXCEPT ![s] = [Idle EXCEPT !.kind = "delete", !.pc = "list", !.nb = nb]]
  /\ nstarted' = nstarted + 1
  /\ UNCHANGED ck
  /\ UNCHANGED <<gvars, cvars>>

\* create_index_if_not_exists() called
StartEnsure(s) ==
  /\ CanStart(s, MaxCalls)
  /\ calls' = [calls EXCEPT ![s] = [Idle EXCEPT !.kind = "ensure", !.pc = "list"]]
  /\ nstarted' = nstarted + 1
  /\ UNCHANGED ck
  /\ UNCHANGED <<gvars, cvars>>

\* create_index_if_not_exists, first request: list_indexes()
GwList(s) ==
  /\ calls[s].pc = "list"
  /\ \/ calls' = [calls EXCEPT ![s].pc =
                     IF indexExists THEN AfterEnsure(calls[s]) ELSE "create"]
     \/ calls' = [calls EXCEPT ![s] = Raise(calls[s])]
  /\ UNCHANGED <<gvars, cvars, nstarted, ck>>

\* create_index_if_not_exists, second request: create_index(); the backend
\* rejects the creation of an index that exists by now.
GwCreate(s) ==
  /\ calls[s].pc = "create"
  /\ \/ /\ ~indexExists
        /\ indexExists' = TRUE
        /\ calls' = [calls EXCEPT ![s].pc = AfterEnsure(calls[s])]
     \/ /\ calls' = [calls EXCEPT ![s] = Raise(calls[s])]
        /\ UNCHANGED indexExists
  /\ UNCHANGED <<index, origin, cvars, nstarted, ck>>

\* the loop of add_documents_to_notebook: one embedding per document, the
\* vectors collected in a local list; any embedding failure leaves the loop.
GwEmbed(s) ==
  /\ calls[s].pc = "embed"
  /\ \/ \E sfx \in [1..Len(calls[s].docs) -> Suffixes] :
          calls' = [calls EXCEPT ![s].pc = "write",
                                 ![s].vecs = MakeVectors(calls[s].nb, calls[s].docs, sfx)]
     \/ calls' = [calls EXCEPT ![s] = Raise(calls[s])]
  /\ UNCHANGED <<gvars, cvars, nstarted, ck>>

\* vectors are written for tenant nb: the generate calls for nb that have
\* queried the index already work on what was there before
MarkStale(cs, nb) ==
  [s \in Slots |-> IF cs[s].kind \in GenKinds /\ cs[s].nb = nb /\ cs[s].retr
                      /\ cs[s].pc # "done"
                   THEN [cs[s] EXCEPT !.stale = TRUE] ELSE cs[s]]

\* index.upsert(vectors=vectors), then return True.  origin records, for
\* every id in the index, the notebook_id argument of the call that wrote it.
GwWrite(s) ==
  /\ calls[s].pc = "write"
  /\ \/ /\ index' = IndexUpsert(index, calls[s].vecs)
        /\ origin' = [id \in {r.id : r \in index} \cup {v.id : v \in calls[s].vecs} |->
                        IF \E v \in calls[s].vecs : v.id = id THEN calls[s].nb ELSE origin[id]]
        /\ calls' = MarkStale([calls EXCEPT ![s] = ReturnBool(calls[s], TRUE)], calls[s].nb)
     \/ /\ calls' = [calls EXCEPT ![s] = Raise(calls[s])]
        /\ UNCHANGED <<index, origin>>
  /\ UNCHANGED <<indexExists, cvars, nstarted, ck>>

\* query_notebook: get_embedding(question)
GwEmbedQ(s) ==
  /\ calls[s].pc = "embedq"
  /\ \/ calls' = [calls EXCEPT ![s].pc = "search"]
     \/ calls' = [calls EXCEPT ![s] = Raise(calls[s])]
  /\ UNCHANGED <<gvars, cvars, nstarted, ck>>

\* query_notebook: index.query(...); no matches -> return None
GwSearch(s) ==
  /\ calls[s].pc = "search"
  /\ \/ \E M \in IndexQuery(index, Embed(calls[s].q), calls[s].k, QueryFilter(calls[s].nb)) :
          calls' = [calls EXCEPT ![s] =
                      AfterSearch([calls[s] EXCEPT !.retr = TRUE, !.empty =
                                     (\A r \in index : r.metadata.notebook_id # calls[s].nb)], M)]
     \/ calls' = [calls EXCEPT ![s] = Raise(calls[s])]
  /\ UNCHANGED <<gvars, cvars, nstarted, ck>>

\* query_notebook: chat.completions.create(...) and return its text
GwComplete(s) ==
  /\ calls[s].pc = "complete"
  /\ \/ \E a \in Answers :
          calls' = [calls EXCEPT ![s] = ReturnAnswer([calls[s] EXCEPT !.gen = TRUE], <<"raw", a>>)]
     \/ calls' = [calls EXCEPT ![s] = Raise([calls[s] EXCEPT !.gen = TRUE])]
  /\ UNCHANGED <<gvars, cvars, nstarted, ck>>

\* delete_notebook_documents: index.delete(filter=...), then return True
GwDelete(s) ==
  /\ calls[s].pc = "del"
  /\ \/ /\ index' = IndexDelete(index, DeleteFilter(calls[s].nb))
        /\ origin' = [id \in {r.id : r \in index'} |-> origin[id]]
        /\ calls' = [calls EXCEPT ![s] =
                       ReturnBool([calls[s] EXCEPT !.removed = (index' # index)], TRUE)]
     \/ /\ calls' = [calls EXCEPT ![s] = Raise(calls[s])]
        /\ UNCHANGED <<index, origin>>
  /\ UNCHANGED <<indexExists, cvars, nstarted, ck>>

\* ------------------------------------------------------------- the cache
RowsOf(rows, nb, f) == {r \in rows : r.notebook_id = nb /\ r.feature_type = f}

\* upsert on the table study_features_cache, whose key is
\* (notebook_id, feature_type): the row with the same key is replaced
TableUpsert(rows, row) ==
  (rows \ RowsOf(rows, row.notebook_id, row.feature_type)) \cup {row}

CachePutInsert(rows, nb, f, content) ==
  rows \cup {[notebook_id |-> nb, feature_type |-> f, content |-> content]}

CachePutIfAbsent(rows, nb, f, content) ==
  IF RowsOf(rows, nb, f) # {} THEN rows
  ELSE rows \cup {[notebook_id |-> nb, feature_type |-> f, content |-> content]}

\* cache_study_feature: table(...).upsert({...}).execute()
CachePut(rows, nb, f, content) ==
  TableUpsert(rows, [notebook_id |-> nb, feature_type |-> f, content |-> content])

\* get_cached_study_feature: the content of result.data[0], None without rows
CacheGet(rows, nb, f) ==
  IF RowsOf(rows, nb, f) = {} THEN {None} ELSE {r.content : r \in RowsOf(rows, nb, f)}

CacheClearNoop(rows, nb, f) == rows

\* clear_cached_study_feature: delete().eq(notebook_id).eq(feature_type)
CacheClear(rows, nb, f) == rows \ RowsOf(rows, nb, f)

\* History of a key: c the content of the latest successful put not followed
\* by a successful clear (None otherwise), n the number of writes so far,
\* run the puts since the latest clear, phase the position in
\* absent(0) -> present(1) -> absent(2) -> present(3).
NotePut(key, content) ==
  [last EXCEPT ![key] = [c |-> content, n |-> @.n + 1, run |-> @.run + 1,
                         phase |-> IF @.phase \in {0, 2} THEN @.phase + 1 ELSE @.phase]]

NoteClear(key) ==
  [last EXCEPT ![key] = [c |-> None, n |-> @.n + 1, run |-> 0,
                         phase |-> IF @.phase \in {1, 3} THEN 2 ELSE @.phase]]

MarkDirty(cs, nb) ==
  [s \in Slots |-> IF cs[s].kind \in IngestKinds /\ cs[s].nb = nb
                   THEN [cs[s] EXCEPT !.dirty = TRUE] ELSE cs[s]]

\* one cache_study_feature request of call s: the call's record becomes cOk
\* when the request succeeds and cFail when it raises (the function then
\* returns False)
PutStep(s, cOk, cFail, content) ==
  \/ /\ cache' = CachePut(cache, cOk.nb, cOk.feat, content)
     /\ last' = NotePut(<<cOk.nb, cOk.feat>>, content)
     /\ calls' = MarkDirty([calls EXCEPT ![s] =
                   [cOk EXCEPT !.wrote = TRUE, !.putAt = last[<<cOk.nb, cOk.feat>>].n + 1]], cOk.nb)
  \/ /\ calls' = [calls EXCEPT ![s] = [cFail EXCEPT !.cfail = TRUE]]
     /\ UNCHANGED cvars

\* one clear_cached_study_feature request of call s, likewise
ClearStep(s, cOk, cFail, f) ==
  \/ /\ cache' = CacheClear(cache, cOk.nb, f)
     /\ last' = NoteClear(<<cOk.nb, f>>)
     /\ calls' = [calls EXCEPT ![s] =
                   [cOk EXCEPT !.wrote = (@ \/ RowsOf(cache, cOk.nb, f) # {})]]
  \/ /\ calls' = [calls EXCEPT ![s] = [cFail EXCEPT !.cfail = TRUE]]
     /\ UNCHANGED cvars

\* cache_study_feature(notebook_id, feature_type, content) called
DirectPut(s, limit) ==
  /\ CanCall(s, limit)
  /\ nstarted' = nstarted + 1
  /\ UNCHANGED ck
  /\ UNCHANGED gvars
  /\ \E nb \in Tenants, f \in Features, content \in PutContents :
       LET c == [Idle EXCEPT !.kind = "put", !.pc = "done", !.nb = nb, !.feat = f]
       IN PutStep(s, [c EXCEPT !.ok = TRUE, !.ret = content], c, content)

\* get_cached_study_feature(notebook_id, feature_type) called
DirectGet(s, limit) ==
  /\ CanCall(s, limit)
  /\ nstarted' = nstarted + 1
  /\ UNCHANGED ck
  /\ UNCHANGED <<gvars, cvars>>
  /\ \E nb \in Tenants, f \in Features :
       LET c == [Idle EXCEPT !.kind = "get", !.pc = "done", !.nb = nb, !.feat = f]
       IN \/ \E v \in CacheGet(cache, nb, f) :
               calls' = [calls EXCEPT ![s] =
                           [c EXCEPT !.ok = TRUE, !.ret = v, !.seen = last[<<nb, f>>].c,
                                     !.phase = last[<<nb, f>>].phase]]
          \/ calls' = [calls EXCEPT ![s] = [c EXCEPT !.cfail = TRUE]]

\* clear_cached_study_feature(notebook_id, feature_type) called
DirectInvalidate(s, limit) ==
  /\ CanCall(s, limit)
  /\ nstarted' = nstarted + 1
  /\ UNCHANGED ck
  /\ UNCHANGED gvars
  /\ \E nb \in Tenants, f \in Features :
       LET c == [Idle EXCEPT !.kind = "invalidate", !.pc = "done", !.nb = nb, !.feat = f]
       IN ClearStep(s, [c EXCEPT !.ok = TRUE], c, f)

\* ----------------------------------------------------------- the handlers
\* upload_source(notebook_id, file) called, the file staged
StartUpload(s) ==
  /\ CanStart(s, MaxAppCalls)
  /\ \E nb \in Tenants :
       calls' = [calls EXCEPT ![s] = [Idle EXCEPT !.kind = "upload", !.pc = "parse", !.nb = nb]]
  /\ nstarted' = nstarted + 1
  /\ UNCHANGED ck
  /\ UNCHANGED <<gvars, cvars>>

\* process_file_for_notebook_tool(filename, notebook_id) called
StartTool(s) ==
  /\ CanStart(s, MaxAppCalls)
  /\ \E nb \in Tenants :
       calls' = [calls EXCEPT ![s] = [Idle EXCEPT !.kind = "tool", !.pc = "parse", !.nb = nb]]
  /\ nstarted' = nstarted + 1
  /\ UNCHANGED ck
  /\ UNCHANGED <<gvars, cvars>>

\* save_general_review(notebook_id, review) called: the review text is the
\* one document handed to add_documents_to_notebook
StartReview(s) ==
  /\ CanStart(s, MaxAppCalls)
  /\ \E nb \in Tenants :
       calls' = [calls EXCEPT ![s] =
                   [Idle EXCEPT !.kind = "review", !.pc = "list", !.nb = nb,
                                !.docs = <<[text |-> "y", notebook_id |-> nb]>>]]
  /\ nstarted' = nstarted + 1
  /\ UNCHANGED ck
  /\ UNCHANGED <<gvars, cvars>>

\* process_file_for_notebook up to the gateway call: the file is missing or
\* parse_file yields no text (return None, None), or the text is chunked and
\* one document is built per chunk, its payload naming the notebook
Parse(s) ==
  /\ calls[s].pc = "parse"
  /\ \/ calls' = [calls EXCEPT ![s] = ReturnBool(calls[s], FALSE)]
     \/ \E b \in AppBatches :
          calls' = [calls EXCEPT ![s].pc = "list",
                                 ![s].docs = [i \in 1..Len(b) |->
                                                [text |-> b[i], notebook_id |-> calls[s].nb]]]
  /\ UNCHANGED <<gvars, cvars, nstarted, ck>>

\* process_file_for_notebook(filename, notebook_id) called
StartIngest(s) ==
  /\ CanStart(s, MaxIngestCalls)
  /\ \E nb \in Tenants, ext \in Extensions :
       calls' = [calls EXCEPT ![s] = [Idle EXCEPT !.kind = "ingest", !.pc = "resolve",
                                                  !.nb = nb, !.ext = ext]]
  /\ nstarted' = nstarted + 1
  /\ UNCHANGED ck
  /\ UNCHANGED <<gvars, cvars>>

\* parse_file: the parser the extension selects
ParserFor(ext) == IF ext \in DedicatedExts THEN "dedicated" ELSE "fast"

\* process_file_for_notebook resolves the path: the file is found and
\* parse_file is called, or it is not (return None, None), or the lookup
\* raises
Resolve(s) ==
  /\ calls[s].pc = "resolve"
  /\ \/ calls' = [calls EXCEPT ![s].pc = ParserFor(calls[s].ext)]
     \/ calls' = [calls EXCEPT ![s] = Sentinel(calls[s])]
     \/ calls' = [calls EXCEPT ![s] = IngestRaise(calls[s])]
  /\ UNCHANGED <<gvars, cvars, nstarted, ck>>

\* parse_spreadsheet_file, parse_jupyter_notebook, parse_powerpoint_file,
\* parse_docx_file: the text (possibly empty), or None after an exception
Dedicated(s) ==
  /\ calls[s].pc = "dedicated"
  /\ \E text \in ExtractedTexts \cup {None} :
       calls' = [calls EXCEPT ![s] = AfterDedicated(calls[s], text)]
  /\ UNCHANGED <<gvars, cvars, nstarted, ck>>

\* parse_file_pymupdf: the text, or None after an exception
Fast(s) ==
  /\ calls[s].pc = "fast"
  /\ \E text \in ExtractedTexts \cup {None} :
       calls' = [calls EXCEPT ![s] = AfterFast(calls[s], text)]
  /\ UNCHANGED <<gvars, cvars, nstarted, ck>>

\* parse_file_docling: the text, or None after an exception
Docling(s) ==
  /\ calls[s].pc = "docling"
  /\ \E text \in ExtractedTexts \cup {None} :
       calls' = [calls EXCEPT ![s] = AfterDocling(calls[s], text)]
  /\ UNCHANGED <<gvars, cvars, nstarted, ck>>

\* process_file_for_notebook: the text is chunked, one document is built
\* per chunk, and add_documents_to_notebook is called
Chunk(s) ==
  /\ calls[s].pc = "chunk"
  /\ \E b \in ChunksOf(calls[s].text) :
       calls' = [calls EXCEPT ![s].pc = "list",
                              ![s].docs = [i \in 1..Len(b) |->
                                             [text |-> b[i], notebook_id |-> calls[s].nb]]]
  /\ UNCHANGED <<gvars, cvars, nstarted, ck>>

\* clear_study_features_cache(notebook_id) called without feature type
StartClearAll(s) ==
  /\ CanStart(s, MaxAppCalls)
  /\ \E nb \in Tenants :
       calls' = [calls EXCEPT ![s] = [Idle EXCEPT !.kind = "clear_all", !.pc = "clr1",
                                                  !.nb = nb, !.ok = TRUE]]
  /\ nstarted' = nstarted + 1
  /\ UNCHANGED ck
  /\ UNCHANGED <<gvars, cvars>>

ClearOrder == [clr1 |-> "summary", clr2 |-> "exam", clr3 |-> "flashcards"]
ClearNext == [clr1 |-> "clr2", clr2 |-> "clr3", clr3 |-> "done"]

\* the response once the three entries were cleared: upload_source ignores
\* the outcomes, clear_study_features_cache answers 500 unless all succeeded
AfterClears(c) ==
  IF c.pc # "done" THEN c
  ELSE Finished([c EXCEPT !.status = IF c.kind = "clear_all" /\ c.cfail THEN 500 ELSE 200])

\* upload_source / clear_study_features_cache: the three
\* clear_cached_study_feature calls, one request each
Clear3(s) ==
  /\ calls[s].pc \in {"clr1", "clr2", "clr3"}
  /\ LET c == [calls[s] EXCEPT !.pc = ClearNext[calls[s].pc]]
     IN ClearStep(s, AfterClears(c), AfterClears([c EXCEPT !.cfail = TRUE]),
                  ClearOrder[calls[s].pc])
  /\ UNCHANGED <<gvars, nstarted, ck>>

\* generate_summary(notebook_id) called
StartGenSummary(s) ==
  /\ CanStart(s, MaxAppCalls)
  /\ \E nb \in Tenants :
       calls' = [calls EXCEPT ![s] = [Idle EXCEPT !.kind = "gen_summary", !.pc = "gclear",
                                                  !.nb = nb, !.feat = "summary"]]
  /\ nstarted' = nstarted + 1
  /\ UNCHANGED ck
  /\ UNCHANGED <<gvars, cvars>>

\* generate_sample_exam / generate_flashcards(notebook_id) called
StartGenCached(s) ==
  /\ CanStart(s, MaxAppCalls)
  /\ \E nb \in Tenants, kf \in {<<"gen_exam", "exam">>, <<"gen_flashcards", "flashcards">>} :
       calls' = [calls EXCEPT ![s] = [Idle EXCEPT !.kind = kf[1], !.pc = "cget",
                                                  !.nb = nb, !.feat = kf[2]]]
  /\ nstarted' = nstarted + 1
  /\ UNCHANGED ck
  /\ UNCHANGED <<gvars, cvars>>

\* the documents table has rows for the notebook (go on to query the
\* index) or has none (HTTPException, answered as 500 by the handler)
AfterDocuments(c, hasDocuments) ==
  IF hasDocuments
  THEN [c EXCEPT !.pc = "list", !.k = DefaultTopK, !.aux = "q1",
                 !.q = IF c.kind = "gen_summary" THEN "summary_prompt" ELSE "feature_prompt"]
  ELSE Finished([c EXCEPT !.status = 500])

\* generate_summary: clear the cached summary, then read the documents table
GenSummaryClear(s) ==
  /\ calls[s].pc = "gclear"
  /\ \E hasDocuments \in BOOLEAN :
       LET c == AfterDocuments([calls[s] EXCEPT !.seen = last[<<calls[s].nb, "summary">>].c],
                               hasDocuments)
       IN ClearStep(s, c, c, "summary")
  /\ UNCHANGED <<gvars, nstarted, ck>>

AfterCacheGetNoCheck(c, cached, hasDocuments) == AfterDocuments(c, hasDocuments)

\* generate_sample_exam / generate_flashcards: if cached: return it
AfterCacheGet(c, cached, hasDocuments) ==
  IF cached # None THEN Finished([c EXCEPT !.status = 200, !.ret = cached, !.ok = TRUE])
  ELSE AfterDocuments(c, hasDocuments)

\* generate_sample_exam / generate_flashcards: get_cached_study_feature (a
\* failed request reads as None), then the documents table
GenCacheGet(s) ==
  /\ calls[s].pc = "cget"
  /\ \E hasDocuments \in BOOLEAN :
       LET c == [calls[s] EXCEPT !.seen = last[<<calls[s].nb, calls[s].feat>>].c]
       IN \/ \E v \in CacheGet(cache, c.nb, c.feat) :
               calls' = [calls EXCEPT ![s] = AfterCacheGet(c, v, hasDocuments)]
          \/ calls' = [calls EXCEPT ![s] =
                         AfterCacheGet([c EXCEPT !.cfail = TRUE], None, hasDocuments)]
  /\ UNCHANGED <<gvars, cvars, nstarted, ck>>

\* format_response_with_template: the rendered template, or the plain
\* wrapping of its own except branch
FormatResponse(raw) == {<<"template", raw[2]>>, <<"plain", raw[2]>>}

\* query_index_for_notebook: format the raw answer
Format(s) ==
  /\ calls[s].pc = "format"
  /\ \E text \in FormatResponse(calls[s].ret) :
       calls' = [calls EXCEPT ![s].pc = "cput", ![s].ret = text]
  /\ UNCHANGED <<gvars, cvars, nstarted, ck>>

\* the generate endpoints: cache_study_feature(...), whose outcome is
\* ignored, then the response
GenCachePut(s) ==
  /\ calls[s].pc = "cput"
  /\ LET c == Finished([calls[s] EXCEPT !.status = 200, !.ok = TRUE])
     IN PutStep(s, c, c, calls[s].ret)
  /\ UNCHANGED <<gvars, nstarted, ck>>

GatewayStep(s) ==
  \/ GwList(s)
  \/ GwCreate(s)
  \/ GwEmbed(s)
  \/ GwWrite(s)
  \/ GwEmbedQ(s)
  \/ GwSearch(s)
  \/ GwComplete(s)
  \/ GwDelete(s)

Next ==
  \E s \in Slots :
    \/ StartUpsert(s)
    \/ StartQuery(s)
    \/ StartDelete(s)
    \/ StartEnsure(s)
    \/ GatewayStep(s)

\* the gateway's public methods, called directly
Spec == Init /\ [][Next]_vars

NextApp ==
  \E s \in Slots :
    \/ DirectPut(s, MaxAppCalls)
    \/ DirectGet(s, MaxAppCalls)
    \/ StartUpload(s)
    \/ StartTool(s)
    \/ StartReview(s)
    \/ StartClearAll(s)
    \/ StartGenSummary(s)
    \/ StartGenCached(s)
    \/ Parse(s)
    \/ Clear3(s)
    \/ GenSummaryClear(s)
    \/ GenCacheGet(s)
    \/ Format(s)
    \/ GenCachePut(s)
    \/ GwList(s)
    \/ GwCreate(s)
    \/ GwEmbed(s)
    \/ GwWrite(s)
    \/ GwEmbedQ(s)
    \/ GwSearch(s)
    \/ GwComplete(s)

\* the service has run before: the index may exist and hold a record
InitApp ==
  /\ indexExists \in BOOLEAN
  /\ index \in {{}} \cup (IF indexExists
                          THEN {{MakeVector("A", 0, [text |-> "x", notebook_id |-> "A"], "s1")}}
                          ELSE {})
  /\ origin = [id \in {r.id : r \in index} |-> "A"]
  /\ calls = [s \in Slots |-> Idle]
  /\ nstarted = 0
  /\ ck = NoChunk
  /\ cache = {}
  /\ last = [key \in Keys |-> [c |-> None, n |-> 0, phase |-> 0, run |-> 0]]

\* the HTTP / MCP handlers, with the cache functions they call
SpecApp == InitApp /\ [][NextApp]_vars

NextCache ==
  \E s \in Slots :
    \/ DirectPut(s, MaxCacheOps)
    \/ DirectGet(s, MaxCacheOps)
    \/ DirectInvalidate(s, MaxCacheOps)

\* the three cache functions, called directly
SpecCache == Init /\ [][NextCache]_vars

\* _get_specialized_prompt(question) called
StartPrompt(s) ==
  /\ CanCall(s, MaxPromptCalls)
  /\ \E question \in Questions :
       calls' = [calls EXCEPT ![s] = [Idle EXCEPT !.kind = "prompt", !.pc = "classify",
                                                  !.words = question]]
  /\ nstarted' = nstarted + 1
  /\ UNCHANGED ck
  /\ UNCHANGED <<gvars, cvars>>

\* _get_specialized_prompt returns the prompt of the first matching branch
Classify(s) ==
  /\ calls[s].pc = "classify"
  /\ calls' = [calls EXCEPT ![s] =
                 Finished([calls[s] EXCEPT !.prompt = GetSpecializedPrompt(calls[s].words)])]
  /\ UNCHANGED <<gvars, cvars, nstarted, ck>>

NextPrompt ==
  \E s \in Slots :
    \/ StartPrompt(s)
    \/ Classify(s)

\* _get_specialized_prompt, called directly
SpecPrompt == Init /\ [][NextPrompt]_vars

\* a step of NotebookLMWorkflow is run on a file
StartExtract(s) ==
  /\ CanCall(s, MaxExtractCalls)
  /\ \E kind \in {"extract_file", "extract_notebook_file"}, nb \in Tenants :
       calls' = [calls EXCEPT ![s] = [Idle EXCEPT !.kind = kind, !.pc = "tool", !.nb = nb]]
  /\ nstarted' = nstarted + 1
  /\ UNCHANGED ck
  /\ UNCHANGED <<gvars, cvars>>

\* mcp_client.call_tool(...) returns the tool's answer
ToolAnswer(s) ==
  /\ calls[s].pc = "tool"
  /\ \E result_text \in ToolAnswers(calls[s].kind) :
       calls' = [calls EXCEPT ![s].pc = "split", ![s].answer = result_text]
  /\ UNCHANGED <<gvars, cvars, nstarted, ck>>

\* the step splits the answer and returns its event, or raises
ExtractReturn(s) ==
  /\ calls[s].pc = "split"
  /\ LET r == ExtractStep(calls[s].answer)
     IN calls' = [calls EXCEPT ![s] =
                    Finished([calls[s] EXCEPT !.raised = r.raised, !.ret = r.event,
                                              !.ok = ~r.raised])]
  /\ UNCHANGED <<gvars, cvars, nstarted, ck>>

NextWorkflow ==
  \E s \in Slots :
    \/ StartExtract(s)
    \/ ToolAnswer(s)
    \/ ExtractReturn(s)

\* the two steps of NotebookLMWorkflow
SpecWorkflow == Init /\ [][NextWorkflow]_vars

NextIngest ==
  \E s \in Slots :
    \/ StartIngest(s)
    \/ Resolve(s)
    \/ Dedicated(s)
    \/ Fast(s)
    \/ Docling(s)
    \/ Chunk(s)
    \/ GwList(s)
    \/ GwCreate(s)
    \/ GwEmbed(s)
    \/ GwWrite(s)

\* process_file_for_notebook, called directly
SpecIngest == InitApp /\ [][NextIngest]_vars

\* ------------------------------------------------------------ the claims
TenantOf(r) == r.metadata.notebook_id

\* C1 (tenant isolation of query): every record a query holds as a match
\* carries the notebook_id the query was called with, whatever the index
\* holds for other tenants.
C1_QueryIsolation ==
  \A s \in Slots : \A m \in calls[s].matches : TenantOf(m) = calls[s].nb

\* a query for one tenant holds matches while another tenant has a record
\* with the same text and the same embedding as one of them
C1_Witness ==
  \E s \in Slots :
    /\ calls[s].pc = "complete"
    /\ \E m \in calls[s].matches : \E r \in index :
         /\ TenantOf(r) # calls[s].nb
         /\ r.metadata.text = m.metadata.text
         /\ r.values = m.values

\* C2 (delete_tenant): the step in which delete_notebook_documents(A) returns
\* leaves the records of every other tenant as they were, and when it
\* returns True no record of A is left by the deletion, whatever other calls
\* are in flight.
C2_DeleteTenant ==
  [][\A s \in Slots :
       (calls[s].pc = "del" /\ calls'[s].pc = "done") =>
         /\ {r \in index' : TenantOf(r) # calls[s].nb} = {r \in index : TenantOf(r) # calls[s].nb}
         /\ calls'[s].ok => {r \in index' : TenantOf(r) = calls[s].nb} = {}]_vars

\* a delete has removed the records of its tenant while the other worker is
\* in the middle of an ingestion into the same tenant
C2_Witness ==
  \E s \in Slots, u \in Slots :
    /\ calls[s].kind = "delete" /\ calls[s].pc = "done"
    /\ calls[s].ok /\ calls[s].removed
    /\ calls[u].kind = "upsert" /\ calls[u].pc = "write"
    /\ calls[u].nb = calls[s].nb

\* C3 (one tenant id per record): every record of the index carries one
\* tenant id, the notebook_id argument of the upsert call that wrote it.
C3_RecordTenant ==
  \A r \in index : TenantOf(r) \in Tenants /\ TenantOf(r) = origin[r.id]

\* an upsert whose documents named another tenant in their payload has
\* written its records
C3_Witness ==
  \E s \in Slots :
    /\ calls[s].kind = "upsert" /\ calls[s].pc = "done"
    /\ calls[s].ok /\ calls[s].foreign
    /\ \E r \in index : origin[r.id] = calls[s].nb

\* C4 (empty tenant): a query for a tenant that had no record when the index
\* was queried returns None and has not called the generation backend.
C4_EmptyTenantNone ==
  \A s \in Slots :
    (calls[s].kind = "query" /\ calls[s].pc = "done" /\ calls[s].empty) =>
      calls[s].ret = None /\ ~calls[s].gen

\* such a query has returned while the index holds another tenant's records
C4_Witness ==
  \E s \in Slots :
    /\ calls[s].kind = "query" /\ calls[s].pc = "done" /\ calls[s].empty
    /\ \E r \in index : TenantOf(r) # calls[s].nb

\* C5 (upsert by key, SpecCache): the cache holds at most one row per
\* (notebook_id, feature_type), that row carries the content of the latest
\* successful put not followed by a successful clear, and a successful get
\* returns exactly that content (None when there is none).
C5_UpsertByKey ==
  /\ \A key \in Keys :
       /\ Cardinality(RowsOf(cache, key[1], key[2])) <= 1
       /\ CacheGet(cache, key[1], key[2]) = {last[key].c}
  /\ \A s \in Slots :
       (calls[s].kind = "get" /\ calls[s].ok) => calls[s].ret = calls[s].seen

\* a get has returned the content of a key that was put twice in a row
C5_Witness ==
  \E s \in Slots :
    /\ calls[s].kind = "get" /\ calls[s].ok
    /\ calls[s].ret # None
    /\ last[<<calls[s].nb, calls[s].feat>>].run >= 2

\* C6 (invalidation, SpecCache): a key is absent after a successful clear
\* and present again after the next successful put (absent -> present ->
\* absent -> present), and a successful get of an absent key returns None.
C6_Invalidation ==
  /\ \A key \in Keys :
       /\ last[key].phase \in {0, 2} => CacheGet(cache, key[1], key[2]) = {None}
       /\ last[key].phase \in {1, 3} => None \notin CacheGet(cache, key[1], key[2])
  /\ \A s \in Slots :
       (calls[s].kind = "get" /\ calls[s].ok /\ calls[s].phase \in {0, 2}) =>
         calls[s].ret = None

\* a key was put, cleared and put again, and a get of it finds the content
\* of the second put
C6_Witness ==
  \E s \in Slots :
    /\ calls[s].kind = "put" /\ calls[s].ok
    /\ last[<<calls[s].nb, calls[s].feat>>].phase = 3
    /\ CacheGet(cache, calls[s].nb, calls[s].feat) = {calls[s].ret}

\* C7 (automatic invalidation, SpecApp), as claimed: once an ingestion entry
\* point (upload, general review, file tool) has returned success, no cache
\* entry of its tenant is left, unless a put came in since the call started
\* or a cache request of the call failed.
C7_IngestInvalidates ==
  \A s \in Slots :
    (/\ calls[s].kind \in IngestKinds /\ calls[s].pc = "done"
     /\ calls[s].ok /\ ~calls[s].cfail /\ ~calls[s].dirty)
    => \A f \in Features : CacheGet(cache, calls[s].nb, f) = {None}

\* C8 (cache first, SpecApp), as claimed for all three endpoints: an
\* endpoint that found an entry under its key returns that entry, without
\* querying the index and without changing the cache.
C8_AllCacheFirst ==
  \A s \in Slots :
    (/\ calls[s].kind \in GenKinds /\ calls[s].pc = "done"
     /\ calls[s].seen # None /\ ~calls[s].cfail)
    => /\ calls[s].ret = calls[s].seen
       /\ ~calls[s].retr
       /\ ~calls[s].wrote

\* C8, amended: generate_sample_exam and generate_flashcards return the
\* entry found under their key without querying the index, calling the
\* generation backend or changing the cache; after a miss and a successful
\* generation they put the generated content under the key before answering
\* (the key holds it as long as nothing was written since), unless the
\* cache request failed.  generate_summary reads nothing from the cache: it
\* answers 200 only after querying the index and generating.
C8_CacheFirst ==
  \A s \in Slots :
    /\ (/\ calls[s].kind \in CachedGenKinds /\ calls[s].pc = "done"
        /\ calls[s].seen # None /\ ~calls[s].cfail)
       => /\ calls[s].ret = calls[s].seen /\ calls[s].status = 200
          /\ ~calls[s].retr /\ ~calls[s].gen /\ ~calls[s].wrote
    /\ (/\ calls[s].kind \in CachedGenKinds /\ calls[s].pc = "done"
        /\ calls[s].status = 200 /\ calls[s].seen = None)
       => /\ calls[s].retr /\ calls[s].gen
          /\ calls[s].putAt > 0 \/ calls[s].cfail
    /\ (/\ calls[s].kind \in CachedGenKinds /\ calls[s].pc = "done"
        /\ calls[s].putAt > 0
        /\ last[<<calls[s].nb, calls[s].feat>>].n = calls[s].putAt)
       => CacheGet(cache, calls[s].nb, calls[s].feat) = {calls[s].ret}
    /\ (calls[s].kind = "gen_summary" /\ calls[s].pc = "done" /\ calls[s].status = 200)
       => calls[s].retr /\ calls[s].gen

\* one call missed, generated and put its content; a second call for the
\* same key found that content and returned it without querying the index
C8_Witness ==
  \E s \in Slots, u \in Slots :
    /\ calls[s].kind \in CachedGenKinds /\ calls[s].pc = "done"
    /\ calls[s].seen = None /\ calls[s].putAt > 0
    /\ calls[u].kind = calls[s].kind /\ calls[u].nb = calls[s].nb
    /\ calls[u].pc = "done" /\ calls[u].status = 200
    /\ calls[u].seen # None /\ calls[u].ret = calls[s].ret /\ ~calls[u].retr

\* C9 (unlocked check-generate-put, SpecApp): when two generate calls for
\* the same key have both put their content and nothing was written to the
\* key since the later put, the key holds exactly one row, with the content
\* of the later put.
C9_SecondPutWins ==
  \A s \in Slots, u \in Slots :
    (/\ calls[s].kind \in GenKinds /\ calls[u].kind = calls[s].kind
     /\ calls[s].nb = calls[u].nb
     /\ calls[s].pc = "done" /\ calls[u].pc = "done"
     /\ calls[s].putAt > 0 /\ calls[u].putAt > calls[s].putAt
     /\ last[<<calls[u].nb, calls[u].feat>>].n = calls[u].putAt)
    => RowsOf(cache, calls[u].nb, calls[u].feat) =
         {[notebook_id |-> calls[u].nb, feature_type |-> calls[u].feat,
           content |-> calls[u].ret]}

\* two calls for the same key both missed the cache, both generated, and
\* put different contents
C9_Witness ==
  \E s \in Slots, u \in Slots :
    /\ calls[s].kind \in CachedGenKinds /\ calls[u].kind = calls[s].kind
    /\ calls[s].nb = calls[u].nb
    /\ calls[s].pc = "done" /\ calls[u].pc = "done"
    /\ calls[s].seen = None /\ calls[u].seen = None
    /\ calls[s].gen /\ calls[u].gen
    /\ calls[s].putAt > 0 /\ calls[u].putAt > calls[s].putAt
    /\ calls[s].ret # calls[u].ret

\* C10 (chunk token bound, SpecChunk), as claimed: every chunk that
\* smart_chunk_text returns has at most max_tokens tokens.
C10_ChunkTokenBound ==
  ck.pc = "done" =>
    \A i \in 1..Len(ck.chunks) : TokenCount(ck.chunks[i]) <= ck.max_tokens

\* the chunks as the program built them at sentence level, before the pass
\* that splits the over-long ones
SentenceChunks ==
  SentenceLoop(SplitSentences(ck.text), 1, <<>>, <<>>, 0, ck.max_tokens, ck.overlap_tokens)

Max(a, b) == IF a > b THEN a ELSE b

\* pieces i.. continue a cover of units whose first done units are covered:
\* each piece is a run of consecutive units that starts no later than the
\* first uncovered unit, and the last piece leaves no unit uncovered
RECURSIVE CoveredFrom(_, _, _, _)
CoveredFrom(units, pieces, i, done) ==
  IF i > Len(pieces) THEN done = Len(units)
  ELSE LET p == pieces[i]
       IN \E a \in 1..(done + 1) :
            /\ a + Len(p) - 1 <= Len(units)
            /\ p = SubSeq(units, a, a + Len(p) - 1)
            /\ CoveredFrom(units, pieces, i + 1, Max(done, a + Len(p) - 1))

\* C11 (chunk coverage, SpecChunk): the words of the returned chunks, each
\* chunk without the leading words that repeat what earlier chunks hold,
\* are the words of the text in order, none missing and none reordered,
\* also where an over-long chunk was split by words; on the character
\* fallback the same holds of the characters.
C11_ChunkCoverage ==
  ck.pc = "done" =>
    IF ck.tiktoken
    THEN CoveredFrom(SplitWords(ck.text),
                     [i \in 1..Len(ck.chunks) |-> SplitWords(ck.chunks[i])], 1, 0)
    ELSE CoveredFrom(ck.text, ck.chunks, 1, 0)

\* a text chunked by sentences with overlap, one of whose chunks was split
\* again by words
C11_Witness ==
  /\ ck.pc = "done" /\ ck.tiktoken
  /\ Len(SentenceChunks) >= 2
  /\ Len(ck.chunks) > Len(SentenceChunks)
  /\ \E i \in 2..Len(SentenceChunks) :
       /\ SentenceChunks[i] # <<>>
       /\ SentenceChunks[i][1] # " "
       /\ \E k \in 1..Len(SentenceChunks[i]) :
            /\ k <= Len(SentenceChunks[i - 1])
            /\ SubSeq(SentenceChunks[i], 1, k) =
                 SubSeq(SentenceChunks[i - 1], Len(SentenceChunks[i - 1]) - k + 1,
                        Len(SentenceChunks[i - 1]))
            /\ ck.overlap_tokens >= TokenCount(SubSeq(SentenceChunks[i], 1, k))
            /\ k < Len(SentenceChunks[i])
            /\ SentenceChunks[i][k + 1] = " "

\* the token count of a run of units: words joined by blanks, or characters
UnitTokens(run, byWords) == IF byWords THEN TokenCount(Join(run)) ELSE TokenCount(run)

\* as CoveredFrom, and the units that a piece shares with the piece before
\* it (which spans units pa..pb) have at most overlap_tokens tokens
RECURSIVE OverlapBoundFrom(_, _, _, _, _, _, _, _)
OverlapBoundFrom(units, pieces, i, done, pa, pb, byWords, overlap_tokens) ==
  IF i > Len(pieces) THEN done = Len(units)
  ELSE LET p == pieces[i]
       IN \E a \in 1..(done + 1) :
            LET b == a + Len(p) - 1
            IN /\ b <= Len(units)
               /\ p = SubSeq(units, a, b)
               /\ i > 1 =>
                    UnitTokens(SubSeq(units, Max(a, pa), Min(b, pb)), byWords) <= overlap_tokens
               /\ OverlapBoundFrom(units, pieces, i + 1, Max(done, b), a, b,
                                   byWords, overlap_tokens)

\* C12 (overlap bound, SpecChunk), as claimed: what two adjacent returned
\* chunks share, the end of the earlier one repeated at the start of the
\* later one, has at most overlap_tokens tokens, on the sentence path, the
\* word path and the character fallback.
C12_OverlapBound ==
  ck.pc = "done" =>
    IF ck.tiktoken
    THEN OverlapBoundFrom(SplitWords(ck.text),
                          [i \in 1..Len(ck.chunks) |-> SplitWords(ck.chunks[i])],
                          1, 0, 1, 0, TRUE, ck.overlap_tokens)
    ELSE OverlapBoundFrom(ck.text, ck.chunks, 1, 0, 1, 0, FALSE, ck.overlap_tokens)

\* the token count of each sentence
SentenceTokens(sentences) == [j \in 1..Len(sentences) |-> TokenCount(sentences[j])]

\* the token counts of sentences a..b, added up
RECURSIVE SumTokens(_, _, _)
SumTokens(t, a, b) == IF a > b THEN 0 ELSE t[b] + SumTokens(t, a, b - 1)

\* The chunks of the greedy rule, as pairs <<first, last>> of sentence
\* numbers: a chunk that starts at sentence a and whose first new sentence
\* is f runs up to the last sentence b that keeps its sum within
\* max_tokens (up to f if none does); the next chunk starts with the
\* longest run of sentences ending at b whose sum is within overlap_tokens.
RECURSIVE GreedySpans(_, _, _, _, _, _)
GreedySpans(t, a, f, sum, max_tokens, overlap_tokens) ==
  LET n == Len(t)
      RECURSIVE Last(_, _)
      Last(j, acc) == IF j < n /\ acc + t[j + 1] <= max_tokens
                      THEN Last(j + 1, acc + t[j + 1]) ELSE j
      b == Last(f, sum)
      RECURSIVE First(_, _)
      First(j, acc) == IF j > a /\ acc + t[j - 1] <= overlap_tokens
                       THEN First(j - 1, acc + t[j - 1]) ELSE j
      a2 == First(b + 1, 0)
  IN IF b = n THEN <<(<<a, b>>)>>
     ELSE <<(<<a, b>>)>> \o GreedySpans(t, a2, b + 1, SumTokens(t, a2, b + 1),
                                      max_tokens, overlap_tokens)

\* the text of the chunk that spans the sentences span[1]..span[2]
SpanText(sentences, span) == Join(SubSeq(sentences, span[1], span[2]))

\* the outcome claimed for the greedy rule: its chunks are returned, and
\* 15,000 tokens under the limits 6000 / 200 give three chunks, the second
\* beginning with the longest run of sentences from the end of the first
\* that has at most 200 tokens
GreedyResult(sentences, t, spans) ==
  /\ ck.chunks = [i \in 1..Len(spans) |-> SpanText(sentences, spans[i])]
  /\ (/\ ck.max_tokens = DefaultMaxTokens
      /\ ck.overlap_tokens = DefaultOverlapTokens
      /\ TokenCount(ck.text) = 15000)
     => /\ Len(ck.chunks) = 3
        /\ LET run == SpanText(sentences, <<spans[2][1], spans[1][2]>>)
           IN /\ spans[2][1] > spans[1][1] /\ spans[2][1] <= spans[1][2]
              /\ TokenCount(run) <= DefaultOverlapTokens
              /\ TokenCount(run) + t[spans[2][1] - 1] > DefaultOverlapTokens
              /\ SubSeq(ck.chunks[2], 1, Len(run)) = run
              /\ SubSeq(ck.chunks[1], Len(ck.chunks[1]) - Len(run) + 1, Len(ck.chunks[1])) = run

\* C13 (greedy accumulate-then-overlap, SpecScenario), as claimed: every
\* text over the limit whose sentences each fit the overlap is returned as
\* the chunks of the greedy rule, three of them for the 15,000-token
\* document.
C13_GreedyAllTexts ==
  (ck.pc = "done" /\ ck.tiktoken) =>
    LET sentences == SplitSentences(ck.text)
        t == SentenceTokens(sentences)
        spans == GreedySpans(t, 1, 1, t[1], ck.max_tokens, ck.overlap_tokens)
    IN (/\ TokenCount(ck.text) > ck.max_tokens
        /\ \A j \in 1..Len(t) : t[j] <= ck.overlap_tokens)
       => GreedyResult(sentences, t, spans)

\* C13, amended: the same, for the texts whose greedy chunks, joined by
\* blanks, each count at most max_tokens tokens.
C13_Greedy ==
  (ck.pc = "done" /\ ck.tiktoken) =>
    LET sentences == SplitSentences(ck.text)
        t == SentenceTokens(sentences)
        spans == GreedySpans(t, 1, 1, t[1], ck.max_tokens, ck.overlap_tokens)
    IN (/\ TokenCount(ck.text) > ck.max_tokens
        /\ \A j \in 1..Len(t) : t[j] <= ck.overlap_tokens
        /\ \A i \in 1..Len(spans) :
             TokenCount(SpanText(sentences, spans[i])) <= ck.max_tokens)
       => GreedyResult(sentences, t, spans)

\* a 15,000-token document chunked under the limits 6000 / 200
C13_Witness ==
  /\ ck.pc = "done" /\ ck.tiktoken
  /\ ck.max_tokens = DefaultMaxTokens /\ ck.overlap_tokens = DefaultOverlapTokens
  /\ Len(ck.chunks) = 3
  /\ TokenCount(ck.text) = 15000
  /\ LET t == SentenceTokens(SplitSentences(ck.text))
     IN \A j \in 1..Len(t) : t[j] <= DefaultOverlapTokens

\* C14 (non-empty result, single chunk, SpecChunk), as claimed: a non-empty
\* text gives at least one chunk, and a text of at most max_tokens tokens
\* gives the one chunk that is the text itself.
C14_SingleChunkAlways ==
  ck.pc = "done" =>
    /\ ck.text # <<>> => ck.chunks # <<>>
    /\ TokenCount(ck.text) <= ck.max_tokens => ck.chunks = <<ck.text>>

\* C14, amended: a non-empty text gives at least one chunk; with the
\* encoding loaded, a text of at most max_tokens tokens gives the one chunk
\* that is the text itself; on the character fallback a non-empty text is
\* returned as one chunk exactly when it is no longer than the step of the
\* loop, 3 * max_tokens - 3 * overlap_tokens characters (3 * max_tokens if
\* that is not positive), whatever its token count, and the empty text
\* gives no chunk.
C14_SingleChunk ==
  ck.pc = "done" =>
    /\ ck.text # <<>> => ck.chunks # <<>>
    /\ (ck.tiktoken /\ TokenCount(ck.text) <= ck.max_tokens) => ck.chunks = <<ck.text>>
    /\ (~ck.tiktoken /\ ck.text # <<>>) =>
         LET size == ck.max_tokens * CharsPerToken
             step == size - ck.overlap_tokens * CharsPerToken
         IN (ck.chunks = <<ck.text>>) = (Len(ck.text) <= IF step > 0 THEN step ELSE size)
    /\ (~ck.tiktoken /\ ck.text = <<>>) => ck.chunks = <<>>

\* a text within the token limit, longer than 3 * max_tokens characters,
\* returned as one chunk
C14_Witness ==
  /\ ck.pc = "done" /\ ck.tiktoken
  /\ TokenCount(ck.text) <= ck.max_tokens
  /\ Len(ck.text) > ck.max_tokens * CharsPerToken
  /\ ck.chunks = <<ck.text>>

\* the document types the extraction chain is stated for
FreeFormExts == {"pdf", "docx", "html", "txt", "md"}

\* parse_file has returned to process_file_for_notebook
ParseReturned(c) ==
  /\ c.kind = "ingest"
  /\ c.fast # ""
  /\ c.pc \in {"chunk", "list", "create", "embed", "write", "done"}

\* C15: for every free-form document type the first, lightweight extractor
\* runs before anything else; the Docling extractor runs only after the
\* first one raised or had its output rejected; an output of the first
\* extractor that is long enough and passes the quality check is what
\* parse_file returns, and Docling is never invoked for it.
C15_ExtractionOrder ==
  \A s \in Slots :
    LET c == calls[s] IN
      (c.kind = "ingest" /\ c.ext \in FreeFormExts) =>
        /\ (c.heavy # "" \/ c.pc = "docling") => c.fast \in {"raised", "rejected"}
        /\ (c.text # None \/ c.pc = "chunk") => c.fast # ""
        /\ (c.fast # "" /\ LongEnough(c.ftext) /\ ~IsHandwrittenOrPoorExtraction(c.ftext)) =>
             /\ c.heavy = ""
             /\ c.pc # "docling"
             /\ c.text = c.ftext

\* a pdf whose first extraction was rejected went through Docling and was
\* ingested
C15_Witness ==
  \E s \in Slots :
    /\ calls[s].kind = "ingest" /\ calls[s].ext = "pdf"
    /\ calls[s].fast = "rejected" /\ calls[s].heavy = "accepted"
    /\ calls[s].pc = "done" /\ calls[s].ok

\* the first extractor of the else branch produced a text and parse_file
\* has judged it
Judged(c) ==
  /\ c.kind = "ingest"
  /\ c.ext \in OtherExts
  /\ c.fast \in {"accepted", "rejected"}

\* C16 as stated: a text is rejected exactly if it is too short, or holds
\* an indicator word, or more than 30% of its characters are neither
\* alphanumeric nor blank, whatever its length.
C16_RejectedIffAny ==
  \A s \in Slots :
    LET c == calls[s] IN
      Judged(c) =>
        (c.fast = "rejected" <=>
           \/ StripLen(c.ftext) <= MinTextLength
           \/ c.ftext[4]
           \/ 10 * c.ftext[3] > RatioTenths * TextLen(c.ftext))

\* C16: a text is rejected exactly if its stripped length is at most 50, or
\* it holds an indicator word, or it is longer than 100 characters and more
\* than 30% of its characters are neither alphanumeric nor blank.
C16_Rejected ==
  \A s \in Slots :
    LET c == calls[s] IN
      Judged(c) =>
        (c.fast = "rejected" <=>
           \/ StripLen(c.ftext) <= MinTextLength
           \/ c.ftext[4]
           \/ /\ TextLen(c.ftext) > RatioTextLength
              /\ 10 * c.ftext[3] > RatioTenths * TextLen(c.ftext))

\* each of the three conditions has rejected a text on its own, and a text
\* of at most 100 characters with more than 30% other characters has passed
C16_Witness ==
  \E s \in Slots :
    /\ Judged(calls[s])
    /\ calls[s].fast = "accepted"
    /\ TextLen(calls[s].ftext) <= RatioTextLength
    /\ 10 * calls[s].ftext[3] > RatioTenths * TextLen(calls[s].ftext)

\* C17: whenever the first extractor of a free-form document type produced
\* a text below the minimum length, Docling has been attempted once
\* parse_file has returned, its text was accepted only if it is long enough,
\* and otherwise the call has returned the sentinel without having called
\* the gateway.
C17_ShortFastFallsBack ==
  \A s \in Slots :
    LET c == calls[s] IN
      (ParseReturned(c) /\ c.ext \in FreeFormExts /\ c.ftext # None /\ ~LongEnough(c.ftext)) =>
        /\ c.heavy # ""
        /\ c.heavy = "accepted" => LongEnough(c.htext)
        /\ c.heavy # "accepted" => (c.pc = "done" /\ ~c.ok /\ c.up = "")

UpsertPcs == {"list", "create", "embed", "write"}

\* C19: add_documents_to_notebook returns False, without raising and
\* without writing, when a request before the write fails or the write
\* fails; it returns True only from the write, with one vector per document
\* and all of them in the index; process_file_for_notebook returns the
\* sentinel whenever it got False.
C19_UpsertResult ==
  [][\A s \in Slots :
       LET c == calls[s]
           d == calls'[s]
       IN (c.kind = "ingest" /\ c.pc \in UpsertPcs /\ d.pc = "done") =>
            /\ ~d.raised
            /\ d.up \in {"true", "false"}
            /\ c.pc # "write" => (d.up = "false" /\ index' = index)
            /\ (c.pc = "write" /\ index' # IndexUpsert(index, c.vecs)) =>
                 (d.up = "false" /\ index' = index)
            /\ d.up = "true" =>
                 /\ c.pc = "write"
                 /\ Cardinality(c.vecs) = Len(c.docs)
                 /\ c.vecs \subseteq index'
            /\ d.up = "false" => ~d.ok]_vars

\* the gateway returned False to an ingestion that had a text
C19_Witness ==
  \E s \in Slots :
    /\ calls[s].kind = "ingest" /\ calls[s].pc = "done"
    /\ calls[s].text # None /\ calls[s].up = "false" /\ ~calls[s].ok

\* C20: no public method of the gateway lets a backend exception out.
C20_NoPropagation ==
  \A s \in Slots :
    calls[s].kind \in {"ensure", "upsert", "query", "delete"} => ~calls[s].raised

\* the question holds a word that is, in lower case, one of the keywords
Holds(question, keywords) ==
  \E i \in 1..Len(question) : \E kw \in keywords : Lower(question[i]) = kw

\* C21: every question gets exactly one of the four prompts: the concept
\* prompt if it holds a concept keyword, else the grade prompt if it holds a
\* grade keyword, else the exam prompt if it holds an exam keyword, else
\* the general prompt; the four prompts differ from each other.
C21_PromptPriority ==
  /\ Cardinality({ConceptPrompt, GradePrompt, ExamPrompt, GeneralPrompt}) = 4
  /\ \A s \in Slots :
       LET c == calls[s] IN
         (c.kind = "prompt" /\ c.pc = "done") =>
           /\ c.prompt \in {ConceptPrompt, GradePrompt, ExamPrompt, GeneralPrompt}
           /\ Holds(c.words, ConceptKeywords) => c.prompt = ConceptPrompt
           /\ (~Holds(c.words, ConceptKeywords) /\ Holds(c.words, GradeKeywords)) =>
                c.prompt = GradePrompt
           /\ (~Holds(c.words, ConceptKeywords) /\ ~Holds(c.words, GradeKeywords)
                 /\ Holds(c.words, ExamKeywords)) => c.prompt = ExamPrompt
           /\ (~Holds(c.words, ConceptKeywords) /\ ~Holds(c.words, GradeKeywords)
                 /\ ~Holds(c.words, ExamKeywords)) => c.prompt = GeneralPrompt

\* a question with a grade keyword first and a concept keyword in capitals
\* after it got the concept prompt
C21_Witness ==
  \E s \in Slots :
    /\ calls[s].kind = "prompt" /\ calls[s].pc = "done"
    /\ calls[s].words = <<"workload", "DEFINE">>
    /\ calls[s].prompt = ConceptPrompt

\* C22: an answer that query_index_for_notebook hands on is either the
\* rendered template or, when rendering failed, the raw answer exactly as
\* the generation backend returned it.
C22_RawOnTemplateFailure ==
  \A s \in Slots :
    LET c == calls[s] IN
      (c.kind \in CachedGenKinds /\ c.pc = "cput" /\ c.ret[1] # "template") =>
        c.ret[1] = "raw"

\* C23: no two records of the index share an id, and no write of
\* add_documents_to_notebook carries an id the index already holds, so that
\* no record is ever replaced.
C23_IdsNeverReused ==
  [][/\ \A r1, r2 \in index' : r1.id = r2.id => r1 = r2
     /\ \A s \in Slots :
          (calls[s].pc = "write" /\ calls'[s].pc # "write" /\ calls'[s].ok) =>
            \A v \in calls[s].vecs : \A r \in index : r.id # v.id]_vars

\* C24: the requests of create_index_if_not_exists change no record and
\* never remove the index, a call that found the index creates nothing, and
\* no call that goes on to create the index fails because the index exists
\* by then, whatever other calls run at the same time.
C24_EnsureIdempotent ==
  [][\A s \in Slots :
       (calls[s].pc \in {"list", "create"} /\ calls'[s] # calls[s]) =>
         /\ index' = index
         /\ indexExists => indexExists'
         /\ (calls[s].pc = "list" /\ indexExists) => calls'[s].pc # "create"
         /\ (calls[s].pc = "create" /\ indexExists) =>
              (calls'[s].pc = AfterEnsure(calls[s]) /\ ~calls'[s].raised)]_vars

\* C25: add_documents_to_notebook writes no record before its one
\* index.upsert request, which comes after the whole embedding loop: a call
\* whose embedding fails returns False with the records of the index
\* untouched, a call reaches the write with one vector per document, and the
\* write puts all of them into the index or none.
C25_AllOrNothing ==
  [][\A s \in Slots :
       LET c == calls[s]
           d == calls'[s]
       IN (c.kind = "upsert" /\ d # c) =>
            /\ c.pc \in {"list", "create", "embed"} => index' = index
            /\ (c.pc = "embed" /\ d.pc = "done") => (d.efail /\ ~d.ok)
            /\ (c.pc = "embed" /\ d.pc = "write") => Cardinality(d.vecs) = Len(c.docs)
            /\ c.pc = "write" =>
                 /\ index' \in {index, IndexUpsert(index, c.vecs)}
                 /\ d.ok => c.vecs \subseteq index'
                 /\ ~d.efail]_vars

\* an upsert into an index that holds a record has failed in its embedding
\* loop, and the index holds that record only
C25_Witness ==
  \E s \in Slots :
    /\ calls[s].kind = "upsert" /\ calls[s].pc = "done"
    /\ calls[s].efail /\ ~calls[s].ok
    /\ Cardinality(index) = 1

\* C26: once an upload for a tenant has written its vectors and cleared the
\* tenant's cache entries, and every call has returned, an entry that a
\* generate call put into the cache for that tenant comes from a query of
\* the index made after the vectors were written.
C26_NoStaleEntry ==
  (\A s \in Slots : Free(s)) =>
    \A u, g \in Slots :
      (/\ calls[u].kind = "upload" /\ calls[u].pc = "done"
       /\ calls[u].ok /\ ~calls[u].cfail
       /\ calls[g].kind \in GenKinds /\ calls[g].pc = "done"
       /\ calls[g].nb = calls[u].nb
       /\ calls[g].putAt # 0
       /\ last[<<calls[g].nb, calls[g].feat>>].n = calls[g].putAt
       /\ None \notin CacheGet(cache, calls[g].nb, calls[g].feat))
      => ~calls[g].stale

\* C27: a step of an upload changes a cache entry or a vector record only
\* if the upload's ingestion has succeeded by then, and an upload that
\* succeeded stays so: an upload whose ingestion returned the sentinel has
\* cleared nothing and written nothing.
C27_FailedUploadFrame ==
  [][\A s \in Slots :
       LET c == calls[s]
           d == calls'[s]
       IN (c.kind = "upload" /\ c.pc # "done" /\ d.pc # c.pc) =>
            /\ (cache' # cache \/ last' # last \/ index' # index) => d.ok
            /\ c.ok => d.ok
            /\ (d.pc = "done" /\ ~d.ok) => (~d.wrote /\ cache' = cache /\ index' = index)]_vars

\* an upload for a tenant with a cached entry and a vector record has
\* failed, and both are still there
C27_Witness ==
  \E s \in Slots :
    /\ calls[s].kind = "upload" /\ calls[s].pc = "done" /\ ~calls[s].ok
    /\ \E f \in Features : None \notin CacheGet(cache, calls[s].nb, f)
    /\ \E r \in index : TenantOf(r) = calls[s].nb

\* C29: an upload whose ingestion returned the sentinel is answered with
\* status 400.
C29_UnprocessableIs400 ==
  \A s \in Slots :
    (calls[s].kind = "upload" /\ calls[s].pc = "done" /\ ~calls[s].ok) =>
      calls[s].status = 400

\* C28: every call of smart_chunk_text returns, with or without the
\* tokenizer and also when overlap_tokens >= max_tokens, and every turn of
\* the character loop moves its start position forward.
C28_ChunkerTerminates ==
  /\ <>(ck.pc = "done")
  /\ [][(ck.pc = "loop" /\ ck' # ck /\ ck.start < Len(ck.text)) => ck'.start > ck.start]_vars

\* the character loop has run more than once with overlap_tokens >=
\* max_tokens and has returned
C28_Witness ==
  /\ ck.pc = "done" /\ ~ck.tiktoken
  /\ ck.overlap_tokens >= ck.max_tokens
  /\ Len(ck.chunks) >= 2

\* C30: a workflow step whose tool answered with the sentinel completes
\* with the empty NotebookOutputEvent, and one whose tool answered with a
\* success payload completes with an event carrying the text after the
\* separator; neither raises.
C30_ExtractStepCompletes ==
  \A s \in Slots :
    LET c == calls[s] IN
      (c.kind \in {"extract_file", "extract_notebook_file"} /\ c.pc = "done") =>
        /\ ~c.raised
        /\ c.answer = <<CouldNotProcess>> => c.ret = NotebookOutputEvent(<<>>)
        /\ c.answer # <<CouldNotProcess>> =>
             c.ret = NotebookOutputEvent(SubSeq(c.answer, 3, Len(c.answer)))
====
